---- MODULE Spec2Model ----
(***************************************************************************)
(* A model of dmitigr::genicam::daheng::gx (src/daheng_gx.hpp): the        *)
(* status-code-to-exception layer (get_last_error, throw_if_last_error,    *)
(* call), class Library (the reference counted GXInitLib/GXCloseLib) and   *)
(* class Device (the owner of a GX_DEV_HANDLE).                            *)
(*                                                                         *)
(* The vendor SDK is the environment: every native function returns a      *)
(* status drawn from Statuses; a failing native function records its       *)
(* status as the SDK's last error; a succeeding one either leaves the      *)
(* last error as it is or clears it (the wrapper's source does not say     *)
(* which, so both are outcomes).                                           *)
(*                                                                         *)
(* The Device of the older header src/lib/dmitigr/daheng_gx.hpp, whose     *)
(* move operations are defaulted, is modelled by the Old_ actions over the *)
(* same variables.                                                         *)
(***************************************************************************)
EXTENDS Integers, Sequences, FiniteSets, TLC

\* ------------------------------------------------------------------ bounds

NDev == 2
MaxHandles == 1
NLib == 2
MaxStatus == 2
MaxMoveHandles == 2

\* --------------------------------------------------------------- constants

GX_STATUS_SUCCESS == 0

\* The statuses a native function returns: success and an error code.
Statuses == {GX_STATUS_SUCCESS, -1}

\* The statuses of the GXGetLastError invocations one get_last_error() issues:
\* both succeed, the first fails (the second is not issued), the second fails.
QueryOutcomes == {<<GX_STATUS_SUCCESS, GX_STATUS_SUCCESS>>, <<-1>>, <<GX_STATUS_SUCCESS, -1>>}

\* What the environment decides for one native step: the status s the native
\* function returns, whether a success clears the SDK's last error (clr), and
\* the statuses q of the GXGetLastError queries that follow it inside call().
Env == [s : Statuses, clr : BOOLEAN, q : QueryOutcomes]

Dev == 1 .. NDev
Lib == 1 .. NLib
NoHandle == 0

VARIABLES
  lastErr,     \* SDK: the code GXGetLastError reports
  devLive,     \* Device objects: constructed and not yet destroyed
  handle_,     \* Device::handle_
  nextHandle,  \* SDK: the next handle GXOpenDeviceByIndex hands out
  closedOK,    \* history: handles on which a GXCloseDevice succeeded
  released,    \* history: handles given out by Device::release()
  dblClose,    \* history: GXCloseDevice was issued on a handle of closedOK
  relClosed,   \* history: GXCloseDevice was issued on a handle of released
  last,        \* history: the last Device operation, its native calls and its outcome
  libAlive,    \* Library objects: constructed and not yet destroyed
  is_refer_,   \* Library::is_refer_
  refs_,       \* Library::refs_ (static, atomic)
  libOpen,     \* SDK: a GXInitLib succeeded and no GXCloseLib succeeded since
  lastLib,     \* history: the last Library operation
  pc,          \* threads: where the thread that owns Library i stands
  bugThrown    \* threads: std::logic_error{"bug"} was thrown

devVars == <<devLive, handle_, nextHandle, closedOK, released, dblClose, relClosed, last>>
libVars == <<libAlive, is_refer_, refs_, libOpen, lastLib>>
thrVars == <<pc, bugThrown>>
libAll == <<libVars, thrVars>>
vars == <<lastErr, devVars, libVars, thrVars>>

\* ------------------------------------------------------------ SDK and call()

\* The SDK's last error after a native function returned s.
NativeLastError(le, s, clr) ==
  IF s # GX_STATUS_SUCCESS THEN s
  ELSE IF clr THEN GX_STATUS_SUCCESS ELSE le

\* No exception, and the two exceptions call() throws: Exception{s,
\* "GXGetLastError()"} and Exception{code, str}.
NoException == [ev |-> GX_STATUS_SUCCESS, what |-> "none"]

\* get_last_error(): throws when a GXGetLastError invocation fails, otherwise
\* returns the SDK's last error code.
get_last_error(le, q) ==
  IF q[1] # GX_STATUS_SUCCESS
  THEN [exc |-> [ev |-> q[1], what |-> "GXGetLastError()"], code |-> le]
  ELSE IF q[2] # GX_STATUS_SUCCESS
  THEN [exc |-> [ev |-> q[2], what |-> "GXGetLastError()"], code |-> le]
  ELSE [exc |-> NoException, code |-> le]

\* throw_if_last_error(): the exception it throws, or NoException.
throw_if_last_error(le, q) ==
  LET r == get_last_error(le, q)
  IN IF r.exc # NoException THEN r.exc
     ELSE IF r.code # GX_STATUS_SUCCESS THEN [ev |-> r.code, what |-> "last error"]
     ELSE NoException

\* call(f, args...): f's own result is not inspected; the exception call()
\* throws after f returned, or NoException.
call(le, q) == throw_if_last_error(le, q)

\* One native step of an operation: the function, the handle it is given and
\* whether it is issued through call() (via) or directly.
Step(fn, h, via) == [fn |-> fn, h |-> h, via |-> via]

\* The first native step of an operation under one choice of the environment:
\* the call made, the exception thrown (by call() only) and the SDK's last
\* error after it.
FirstStep(st, e, le) ==
  LET le1 == NativeLastError(le, e.s, e.clr)
  IN [c |-> [fn |-> st.fn, h |-> st.h, s |-> e.s, via |-> st.via],
      exc |-> IF st.via THEN call(le1, e.q) ELSE NoException,
      le |-> le1]

\* The steps of an operation run in order, under every choice of the
\* environment; the first call() that throws ends the operation. Each outcome
\* holds the native calls issued, the exception thrown (or NoException) and the
\* SDK's last error at its end.
RECURSIVE Run(_, _)
Run(steps, le) ==
  IF steps = <<>> THEN {[calls |-> <<>>, exc |-> NoException, le |-> le]}
  ELSE UNION { IF f.exc # NoException
               THEN {[calls |-> <<f.c>>, exc |-> f.exc, le |-> f.le]}
               ELSE {[calls |-> <<f.c>> \o r.calls, exc |-> r.exc, le |-> r.le] :
                       r \in Run(Tail(steps), f.le)}
               : f \in {FirstStep(Head(steps), e, le) : e \in Env} }

\* Whether an outcome of Run threw.
Threw(r) == r.exc # NoException

\* The record of a Device operation kept in last: the object and the handle it
\* held before, the other object of a move or swap (arg, 0 when there is none)
\* and the handle that one held, the native calls issued, the exception thrown
\* and the value returned (close_nothrow's; TRUE elsewhere).
Op(op, obj, pre, calls, exc, ret) ==
  [op |-> op, obj |-> obj, pre |-> pre, arg |-> 0, argPre |-> NoHandle,
   calls |-> calls, exc |-> exc, threw |-> exc # NoException, ret |-> ret]

\* ------------------------------------------------------------ class Device

\* GX_STATUS is a 32-bit signed integer: a | b on two's complement, bit by bit
\* (x \div 2 is the arithmetic shift, and -1 is all ones).
RECURSIVE BitOr32(_, _)
BitOr32(a, b) ==
  IF a = 0 THEN b
  ELSE IF b = 0 THEN a
  ELSE IF a = -1 \/ b = -1 THEN -1
  ELSE (IF a % 2 = 1 \/ b % 2 = 1 THEN 1 ELSE 0) + 2 * BitOr32(a \div 2, b \div 2)

\* Device::close(): three native steps, each through call().
close_steps(h) ==
  << Step("GXStreamOff", h, TRUE),
     Step("GXUnregisterCaptureCallback", h, TRUE),
     Step("GXCloseDevice", h, TRUE) >>

\* Device::reset(): the reset command, then GXCloseDevice, each through call().
reset_steps(h) ==
  << Step("GXSendCommand", h, TRUE),
     Step("GXCloseDevice", h, TRUE) >>

\* A close() that gives the handle up before its native steps, so that a throw
\* leaves the Device without it.
handle_after_close_cleared(h, threw) == NoHandle

\* A close() that forgets handle_ = {}.
handle_after_close_kept(h, threw) == h

\* Device::close() and Device::reset(): handle_ = {} is the last statement,
\* reached only when no call() threw.
handle_after_close(h, threw) == IF threw THEN h ELSE NoHandle

\* A close_nothrow() that is close(): no test of handle_, each step through call().
close_nothrow_steps_as_close(h) == close_steps(h)

\* Device::close_nothrow(): with a handle, three native steps issued directly.
close_nothrow_steps(h) ==
  IF h # NoHandle
  THEN << Step("GXStreamOff", h, FALSE),
          Step("GXUnregisterCaptureCallback", h, FALSE),
          Step("GXCloseDevice", h, FALSE) >>
  ELSE <<>>

\* A close_nothrow() that assigns s instead of accumulating it: the last status
\* alone decides.
close_nothrow_result_last_only(calls) ==
  IF calls = <<>> THEN TRUE
  ELSE calls[3].s = GX_STATUS_SUCCESS

\* Device::close_nothrow(): the value returned, s accumulated with |=.
close_nothrow_result(calls) ==
  IF calls = <<>> THEN TRUE
  ELSE BitOr32(BitOr32(calls[1].s, calls[2].s), calls[3].s) = GX_STATUS_SUCCESS

\* Device::close_nothrow(): handle_ after it.
handle_after_close_nothrow(h) == NoHandle

\* The operations that only pass through to the SDK and leave handle_ alone.
FeatureOps ==
  { "register_capture_callback", "set_capture_callback", "set_gain", "gain",
    "set_balance_ratio", "capture" }

\* A set_gain() that forgets to select the channel first.
feature_steps_no_selector(op, h) ==
  CASE op = "register_capture_callback" -> << Step("GXRegisterCaptureCallback", h, TRUE) >>
    [] op = "set_capture_callback" ->
         << Step("GXUnregisterCaptureCallback", h, FALSE),
            Step("GXRegisterCaptureCallback", h, TRUE) >>
    [] op = "set_gain" -> << Step("GXSetFloat", h, TRUE) >>
    [] op = "gain" -> << Step("GXSetEnum", h, TRUE), Step("GXGetFloat", h, TRUE) >>
    [] op = "set_balance_ratio" -> << Step("GXSetEnum", h, TRUE), Step("GXSetFloat", h, TRUE) >>
    [] op = "capture" -> << Step("GXGetInt", h, TRUE), Step("GXGetImage", h, TRUE) >>

\* The native steps of a pass-through operation: set_gain(), gain() and
\* set_balance_ratio() select the channel with set_enum() first,
\* set_capture_callback() unregisters directly and then registers, capture()
\* reads payload_size() and then gets the image.
feature_steps(op, h) ==
  CASE op = "register_capture_callback" -> << Step("GXRegisterCaptureCallback", h, TRUE) >>
    [] op = "set_capture_callback" ->
         << Step("GXUnregisterCaptureCallback", h, FALSE),
            Step("GXRegisterCaptureCallback", h, TRUE) >>
    [] op = "set_gain" -> << Step("GXSetEnum", h, TRUE), Step("GXSetFloat", h, TRUE) >>
    [] op = "gain" -> << Step("GXSetEnum", h, TRUE), Step("GXGetFloat", h, TRUE) >>
    [] op = "set_balance_ratio" -> << Step("GXSetEnum", h, TRUE), Step("GXSetFloat", h, TRUE) >>
    [] op = "capture" -> << Step("GXGetInt", h, TRUE), Step("GXGetImage", h, TRUE) >>

\* The handles on which the calls issue GXCloseDevice, and those on which it succeeded.
CloseIssued(calls) ==
  { calls[i].h : i \in { j \in 1 .. Len(calls) : calls[j].fn = "GXCloseDevice" } } \ {NoHandle}

CloseSucceeded(calls) ==
  { calls[i].h : i \in { j \in 1 .. Len(calls) :
       calls[j].fn = "GXCloseDevice" /\ calls[j].s = GX_STATUS_SUCCESS } } \ {NoHandle}

\* The history variables after an operation that issued calls.
Track(calls) ==
  /\ dblClose' = (dblClose \/ CloseIssued(calls) \cap closedOK # {})
  /\ relClosed' = (relClosed \/ CloseIssued(calls) \cap released # {})
  /\ closedOK' = closedOK \cup CloseSucceeded(calls)

DevInit ==
  /\ devLive = [d \in Dev |-> FALSE]
  /\ handle_ = [d \in Dev |-> NoHandle]
  /\ nextHandle = 1
  /\ closedOK = {}
  /\ released = {}
  /\ dblClose = FALSE
  /\ relClosed = FALSE
  /\ last = Op("none", 0, NoHandle, <<>>, NoException, TRUE)

\* A new Device object takes the first slot that holds no object.
FreeSlot(d) == ~devLive[d] /\ \A e \in Dev : e < d => devLive[e]

\* Device(GX_DEV_HANDLE handle = {}) with its default argument.
Device_default(d) ==
  /\ FreeSlot(d)
  /\ devLive' = [devLive EXCEPT ![d] = TRUE]
  /\ handle_' = [handle_ EXCEPT ![d] = NoHandle]
  /\ last' = Op("Device", d, NoHandle, <<>>, NoException, TRUE)
  /\ UNCHANGED <<lastErr, nextHandle, closedOK, released, dblClose, relClosed, libAll>>

\* Device(index): call(GXOpenDeviceByIndex, index, &handle_). A successful
\* native open hands out a fresh handle; a throwing constructor leaves no
\* object. The SDK hands out at most max handles.
Device_open_upto(d, max) ==
  /\ FreeSlot(d)
  /\ nextHandle <= max
  /\ \E r \in Run(<< Step("GXOpenDeviceByIndex", NoHandle, TRUE) >>, lastErr) :
       LET ok == r.calls[1].s = GX_STATUS_SUCCESS
       IN /\ lastErr' = r.le
          /\ nextHandle' = IF ok THEN nextHandle + 1 ELSE nextHandle
          /\ devLive' = [devLive EXCEPT ![d] = ~Threw(r)]
          /\ handle_' = [handle_ EXCEPT ![d] =
                           IF ~Threw(r) /\ ok THEN nextHandle ELSE NoHandle]
          /\ last' = Op("Device(index)", d, NoHandle, r.calls, r.exc, TRUE)
  /\ UNCHANGED <<closedOK, released, dblClose, relClosed, libAll>>

Device_open(d) == Device_open_upto(d, MaxHandles)

\* ~Device(): close_nothrow().
Device_destroy(d) ==
  /\ devLive[d]
  /\ \E r \in Run(close_nothrow_steps(handle_[d]), lastErr) :
             /\ lastErr' = r.le
             /\ handle_' = [handle_ EXCEPT ![d] = handle_after_close_nothrow(handle_[d])]
             /\ Track(r.calls)
             /\ last' = Op("~Device", d, handle_[d], r.calls, r.exc, TRUE)
  /\ devLive' = [devLive EXCEPT ![d] = FALSE]
  /\ UNCHANGED <<nextHandle, released, libAll>>

\* Device(Device&& rhs): takes rhs's handle, leaves rhs without one.
Device_move_construct(d, rhs) ==
  /\ FreeSlot(d)
  /\ devLive[rhs]
  /\ devLive' = [devLive EXCEPT ![d] = TRUE]
  /\ handle_' = [handle_ EXCEPT ![d] = handle_[rhs], ![rhs] = NoHandle]
  /\ last' = [arg |-> rhs, argPre |-> handle_[rhs]] @@
       Op("Device(Device&&)", d, NoHandle, <<>>, NoException, TRUE)
  /\ UNCHANGED <<lastErr, nextHandle, closedOK, released, dblClose, relClosed, libAll>>

\* A move assignment that is the defaulted one: the handle is copied over and
\* nothing is closed.
move_assign_steps_defaulted(self, h) == <<>>

\* operator=(Device&& rhs): unless this == &rhs, tmp{std::move(rhs)}, swap(tmp),
\* and tmp's destructor closes the handle h this object held.
move_assign_steps(self, h) == IF self THEN <<>> ELSE close_nothrow_steps(h)

Device_move_assign(d, rhs) ==
  /\ devLive[d]
  /\ devLive[rhs]
  /\ \E r \in Run(move_assign_steps(d = rhs, handle_[d]), lastErr) :
             /\ lastErr' = r.le
             /\ handle_' = IF d # rhs
                           THEN [handle_ EXCEPT ![d] = handle_[rhs], ![rhs] = NoHandle]
                           ELSE handle_
             /\ Track(r.calls)
             /\ last' = [arg |-> rhs, argPre |-> handle_[rhs]] @@
                  Op("operator=", d, handle_[d], r.calls, r.exc, TRUE)
  /\ UNCHANGED <<devLive, nextHandle, released, libAll>>

\* swap(Device& other).
Device_swap(d, other) ==
  /\ devLive[d]
  /\ devLive[other]
  /\ handle_' = [handle_ EXCEPT ![d] = handle_[other], ![other] = handle_[d]]
  /\ last' = [arg |-> other, argPre |-> handle_[other]] @@
       Op("swap", d, handle_[d], <<>>, NoException, TRUE)
  /\ UNCHANGED <<lastErr, devLive, nextHandle, closedOK, released, dblClose, relClosed, libAll>>

\* release(): gives the handle out and keeps none.
Device_release(d) ==
  /\ devLive[d]
  /\ handle_' = [handle_ EXCEPT ![d] = NoHandle]
  /\ released' = released \cup ({handle_[d]} \ {NoHandle})
  /\ last' = Op("release", d, handle_[d], <<>>, NoException, TRUE)
  /\ UNCHANGED <<lastErr, devLive, nextHandle, closedOK, dblClose, relClosed, libAll>>

\* close().
Device_close(d) ==
  /\ devLive[d]
  /\ \E r \in Run(close_steps(handle_[d]), lastErr) :
          /\ lastErr' = r.le
          /\ handle_' = [handle_ EXCEPT ![d] = handle_after_close(handle_[d], Threw(r))]
          /\ Track(r.calls)
          /\ last' = Op("close", d, handle_[d], r.calls, r.exc, TRUE)
  /\ UNCHANGED <<devLive, nextHandle, released, libAll>>

\* reset().
Device_reset(d) ==
  /\ devLive[d]
  /\ \E r \in Run(reset_steps(handle_[d]), lastErr) :
          /\ lastErr' = r.le
          /\ handle_' = [handle_ EXCEPT ![d] = handle_after_close(handle_[d], Threw(r))]
          /\ Track(r.calls)
          /\ last' = Op("reset", d, handle_[d], r.calls, r.exc, TRUE)
  /\ UNCHANGED <<devLive, nextHandle, released, libAll>>

\* close_nothrow().
Device_close_nothrow(d) ==
  /\ devLive[d]
  /\ \E r \in Run(close_nothrow_steps(handle_[d]), lastErr) :
             /\ lastErr' = r.le
             /\ handle_' = [handle_ EXCEPT ![d] = handle_after_close_nothrow(handle_[d])]
             /\ Track(r.calls)
             /\ last' = Op("close_nothrow", d, handle_[d], r.calls, r.exc,
                           close_nothrow_result(r.calls))
  /\ UNCHANGED <<devLive, nextHandle, released, libAll>>

\* The pass-through operations.
Device_feature(d, op) ==
  /\ devLive[d]
  /\ \E r \in Run(feature_steps(op, handle_[d]), lastErr) :
             /\ lastErr' = r.le
             /\ last' = Op(op, d, handle_[d], r.calls, r.exc, TRUE)
  /\ UNCHANGED <<devLive, handle_, nextHandle, closedOK, released, dblClose, relClosed, libAll>>

DevNext ==
  \/ \E d \in Dev : Device_default(d)
  \/ \E d \in Dev : Device_open(d)
  \/ \E d \in Dev : Device_destroy(d)
  \/ \E d, rhs \in Dev : Device_move_construct(d, rhs)
  \/ \E d, rhs \in Dev : Device_move_assign(d, rhs)
  \/ \E d, other \in Dev : Device_swap(d, other)
  \/ \E d \in Dev : Device_release(d)
  \/ \E d \in Dev : Device_close(d)
  \/ \E d \in Dev : Device_reset(d)
  \/ \E d \in Dev : Device_close_nothrow(d)

\* The lifetime operations and the pass-through operations.
CallNext ==
  \/ DevNext
  \/ \E d \in Dev : \E op \in FeatureOps : Device_feature(d, op)

\* Devices that are constructed, moved and destroyed; the move operations need
\* two Devices that hold a handle each.
MoveNext ==
  \/ \E d \in Dev : Device_default(d)
  \/ \E d \in Dev : Device_open_upto(d, MaxMoveHandles)
  \/ \E d, rhs \in Dev : Device_move_construct(d, rhs)
  \/ \E d, rhs \in Dev : Device_move_assign(d, rhs)
  \/ \E d \in Dev : Device_destroy(d)

\* ------------------- class Device of src/lib/dmitigr/daheng_gx.hpp (older)

\* The older header's call() and Device(index) behave as the newer ones (the
\* exception is a std::runtime_error).
Old_Device_open(d) == Device_open_upto(d, MaxMoveHandles)

\* Device(GX_DEV_HANDLE handle = {}) with its default argument.
Old_Device_default(d) == Device_default(d)

\* ~Device(): with a handle, the three native functions issued directly.
old_destroy_steps(h) ==
  IF h # NoHandle
  THEN << Step("GXStreamOff", h, FALSE),
          Step("GXUnregisterCaptureCallback", h, FALSE),
          Step("GXCloseDevice", h, FALSE) >>
  ELSE <<>>

\* The handle a defaulted move leaves in its source: GX_DEV_HANDLE is a
\* pointer, and moving a pointer copies it.
old_moved_from(h) == h

Old_Device_destroy(d) ==
  /\ devLive[d]
  /\ \E r \in Run(old_destroy_steps(handle_[d]), lastErr) :
       /\ lastErr' = r.le
       /\ Track(r.calls)
       /\ last' = Op("~Device", d, handle_[d], r.calls, r.exc, TRUE)
  /\ devLive' = [devLive EXCEPT ![d] = FALSE]
  /\ handle_' = [handle_ EXCEPT ![d] = NoHandle]
  /\ UNCHANGED <<nextHandle, released, libAll>>

\* Device(Device&&) = default.
Old_Device_move_construct(d, rhs) ==
  /\ FreeSlot(d)
  /\ devLive[rhs]
  /\ devLive' = [devLive EXCEPT ![d] = TRUE]
  /\ handle_' = [handle_ EXCEPT ![d] = handle_[rhs], ![rhs] = old_moved_from(handle_[rhs])]
  /\ last' = [arg |-> rhs, argPre |-> handle_[rhs]] @@
       Op("Device(Device&&)", d, NoHandle, <<>>, NoException, TRUE)
  /\ UNCHANGED <<lastErr, nextHandle, closedOK, released, dblClose, relClosed, libAll>>

\* operator=(Device&&) = default: the handle is assigned, nothing is closed.
Old_Device_move_assign(d, rhs) ==
  /\ devLive[d]
  /\ devLive[rhs]
  /\ handle_' = [handle_ EXCEPT ![rhs] = old_moved_from(handle_[rhs]), ![d] = handle_[rhs]]
  /\ last' = [arg |-> rhs, argPre |-> handle_[rhs]] @@
       Op("operator=", d, handle_[d], <<>>, NoException, TRUE)
  /\ UNCHANGED <<lastErr, devLive, nextHandle, closedOK, released, dblClose, relClosed, libAll>>

\* The older Device: constructions, moves and destructions.
OldNext ==
  \/ \E d \in Dev : Old_Device_default(d)
  \/ \E d \in Dev : Old_Device_open(d)
  \/ \E d, rhs \in Dev : Old_Device_move_construct(d, rhs)
  \/ \E d, rhs \in Dev : Old_Device_move_assign(d, rhs)
  \/ \E d \in Dev : Old_Device_destroy(d)

\* The operations that reach the SDK on a Device that is constructed once and
\* never moved.
PassNext ==
  \/ \E d \in Dev : Device_default(d)
  \/ \E d \in Dev : Device_open(d)
  \/ \E d \in Dev : Device_close(d)
  \/ \E d \in Dev : Device_reset(d)
  \/ \E d \in Dev : Device_close_nothrow(d)
  \/ \E d \in Dev : \E op \in FeatureOps : Device_feature(d, op)

\* Any value of GX_STATUS a native function may return, not only the two of
\* Statuses: close_nothrow() combines three of them bit by bit.
AnyStatus == (0 - MaxStatus) .. MaxStatus

\* The native calls of steps issued directly, returning the statuses ss.
NativeCalls(steps, ss) ==
  [k \in 1 .. Len(steps) |->
     [fn |-> steps[k].fn, h |-> steps[k].h, s |-> ss[k], via |-> steps[k].via]]

\* The SDK's last error after the calls.
RECURSIVE LastErrorAfter(_, _, _)
LastErrorAfter(le, calls, clr) ==
  IF calls = <<>> THEN le
  ELSE LastErrorAfter(NativeLastError(le, Head(calls).s, clr), Tail(calls), clr)

\* close_nothrow() against an SDK whose three functions return any statuses.
Device_close_nothrow_any(d) ==
  /\ devLive[d]
  /\ \E ss \in [1 .. Len(close_nothrow_steps(handle_[d])) -> AnyStatus] :
     \E clr \in IF handle_[d] # NoHandle THEN BOOLEAN ELSE {FALSE} :
       LET calls == NativeCalls(close_nothrow_steps(handle_[d]), ss)
       IN /\ lastErr' = LastErrorAfter(lastErr, calls, clr)
          /\ handle_' = [handle_ EXCEPT ![d] = handle_after_close_nothrow(handle_[d])]
          /\ Track(calls)
          /\ last' = Op("close_nothrow", d, handle_[d], calls, NoException,
                        close_nothrow_result(calls))
  /\ UNCHANGED <<devLive, nextHandle, released, libAll>>

\* Devices that are constructed and closed with close_nothrow().
StatusNext ==
  \/ \E d \in Dev : Device_default(d)
  \/ \E d \in Dev : Device_open(d)
  \/ \E d \in Dev : Device_close_nothrow_any(d)

\* ----------------------------------------------------------- class Library

\* Library::is_invariant_ok().
is_invariant_ok(refer, refs) == ~refer \/ refs # 0

\* Library::is_open().
is_open == refs_ > 0

\* An open() that initialises the SDK whatever the counter is.
open_steps_always_init(refer, refs) ==
  IF refer THEN <<>> ELSE << Step("GXInitLib", NoHandle, TRUE) >>

\* Library::open(): nothing when the instance refers; call(GXInitLib) when the
\* counter is 0.
open_steps(refer, refs) ==
  IF refer THEN <<>>
  ELSE IF refs = 0 THEN << Step("GXInitLib", NoHandle, TRUE) >>
  ELSE <<>>

\* Library::open(): is_refer_ and refs_ after it (the early return and a
\* throwing call() leave both as they were).
refer_after_open(refer, threw) == IF refer \/ threw THEN refer ELSE TRUE

\* An open() without its early return: it counts an instance that refers again.
refs_after_open_recount(refer, refs, threw) == IF threw THEN refs ELSE refs + 1

refs_after_open(refer, refs, threw) == IF refer \/ threw THEN refs ELSE refs + 1

\* A close() that tests the counter against 0 instead of 1.
lib_close_steps_off_by_one(refer, refs) ==
  IF ~refer THEN <<>>
  ELSE IF refs = 0 THEN << Step("GXCloseLib", NoHandle, TRUE) >>
  ELSE <<>>

\* Library::close(): nothing when the instance does not refer; call(GXCloseLib)
\* when the counter is 1.
lib_close_steps(refer, refs) ==
  IF ~refer THEN <<>>
  ELSE IF refs = 1 THEN << Step("GXCloseLib", NoHandle, TRUE) >>
  ELSE <<>>

refer_after_close(refer, threw) == IF ~refer \/ threw THEN refer ELSE FALSE

\* A close() that counts down before call(GXCloseLib): a throw loses the count.
refs_after_close_early(refer, refs, threw) == IF ~refer THEN refs ELSE refs - 1

refs_after_close(refer, refs, threw) == IF ~refer \/ threw THEN refs ELSE refs - 1

\* A destructor that closes through call(), as close() does.
destroy_steps_as_close(refer, refs) ==
  IF ~refer THEN <<>>
  ELSE IF refs = 1 THEN << Step("GXCloseLib", NoHandle, TRUE) >>
  ELSE <<>>

\* Library::~Library(): GXCloseLib is issued directly and its status dropped.
destroy_steps(refer, refs) ==
  IF ~refer THEN <<>>
  ELSE IF refs = 1 THEN << Step("GXCloseLib", NoHandle, FALSE) >>
  ELSE <<>>

\* A destructor that decrements the counter whether the instance refers or not.
refs_after_destroy_always(refer, refs) == refs - 1

refs_after_destroy(refer, refs) == IF ~refer THEN refs ELSE refs - 1

\* The native library after the calls: open after a successful GXInitLib,
\* closed after a successful GXCloseLib.
RECURSIVE NativeLibOpen(_, _)
NativeLibOpen(open, calls) ==
  IF calls = <<>> THEN open
  ELSE LET c == Head(calls)
       IN NativeLibOpen(
            IF c.s # GX_STATUS_SUCCESS THEN open
            ELSE IF c.fn = "GXInitLib" THEN TRUE
            ELSE IF c.fn = "GXCloseLib" THEN FALSE
            ELSE open,
            Tail(calls))

\* The record of a Library operation kept in lastLib: the instance, is_refer_
\* and refs_ before it, the native calls, whether it threw an Exception and
\* whether it threw std::logic_error{"bug"}.
LibOp(op, obj, refer, refs, calls, exc, bug) ==
  [op |-> op, obj |-> obj, refer |-> refer, refs |-> refs, calls |-> calls,
   exc |-> exc, threw |-> exc # NoException, bug |-> bug]

LibInit ==
  /\ libAlive = [i \in Lib |-> FALSE]
  /\ is_refer_ = [i \in Lib |-> FALSE]
  /\ refs_ = 0
  /\ libOpen = FALSE
  /\ lastLib = LibOp("none", 0, FALSE, 0, <<>>, NoException, FALSE)

Init ==
  /\ lastErr = GX_STATUS_SUCCESS
  /\ DevInit
  /\ LibInit
  /\ pc = [i \in Lib |-> "idle"]
  /\ bugThrown = FALSE

\* The body of open() on instance i, recorded as operation op; alive is whether
\* the object exists after a normal return and after a throw.
OpenBody(i, op, aliveOnThrow) ==
  \E r \in Run(open_steps(is_refer_[i], refs_), lastErr) :
    LET refer1 == refer_after_open(is_refer_[i], Threw(r))
        refs1 == refs_after_open(is_refer_[i], refs_, Threw(r))
        bug == ~Threw(r) /\ ~is_refer_[i] /\ ~is_invariant_ok(refer1, refs1)
    IN /\ lastErr' = r.le
       /\ is_refer_' = [is_refer_ EXCEPT ![i] = refer1]
       /\ refs_' = refs1
       /\ libOpen' = NativeLibOpen(libOpen, r.calls)
       /\ libAlive' = [libAlive EXCEPT ![i] = IF Threw(r) \/ bug THEN aliveOnThrow ELSE TRUE]
       /\ lastLib' = LibOp(op, i, is_refer_[i], refs_, r.calls, r.exc, bug)

\* Library(auto_open): with auto_open it calls open(); a throwing constructor
\* leaves no object.
Library_construct(i, auto_open) ==
  /\ ~libAlive[i]
  /\ IF auto_open
     THEN OpenBody(i, "Library(true)", FALSE)
     ELSE /\ libAlive' = [libAlive EXCEPT ![i] = TRUE]
          /\ lastLib' = LibOp("Library(false)", i, FALSE, refs_, <<>>, NoException, FALSE)
          /\ UNCHANGED <<lastErr, is_refer_, refs_, libOpen>>
  /\ UNCHANGED <<devVars, thrVars>>

\* Library::open().
Library_open(i) ==
  /\ libAlive[i]
  /\ OpenBody(i, "open", TRUE)
  /\ UNCHANGED <<devVars, thrVars>>

\* Library::close().
Library_close(i) ==
  /\ libAlive[i]
  /\ \E r \in Run(lib_close_steps(is_refer_[i], refs_), lastErr) :
       LET refer1 == refer_after_close(is_refer_[i], Threw(r))
           refs1 == refs_after_close(is_refer_[i], refs_, Threw(r))
           bug == ~Threw(r) /\ is_refer_[i] /\ ~is_invariant_ok(refer1, refs1)
       IN /\ lastErr' = r.le
          /\ is_refer_' = [is_refer_ EXCEPT ![i] = refer1]
          /\ refs_' = refs1
          /\ libOpen' = NativeLibOpen(libOpen, r.calls)
          /\ lastLib' = LibOp("close", i, is_refer_[i], refs_, r.calls, r.exc, bug)
  /\ UNCHANGED <<libAlive, devVars, thrVars>>

\* Library::~Library().
Library_destroy(i) ==
  /\ libAlive[i]
  /\ \E r \in Run(destroy_steps(is_refer_[i], refs_), lastErr) :
          /\ lastErr' = r.le
          /\ refs_' = refs_after_destroy(is_refer_[i], refs_)
          /\ libOpen' = NativeLibOpen(libOpen, r.calls)
          /\ lastLib' = LibOp("~Library", i, is_refer_[i], refs_, r.calls, r.exc, FALSE)
  /\ is_refer_' = [is_refer_ EXCEPT ![i] = FALSE]
  /\ libAlive' = [libAlive EXCEPT ![i] = FALSE]
  /\ UNCHANGED <<devVars, thrVars>>

LibNext ==
  \/ \E i \in Lib : \E auto_open \in BOOLEAN : Library_construct(i, auto_open)
  \/ \E i \in Lib : Library_open(i)
  \/ \E i \in Lib : Library_close(i)
  \/ \E i \in Lib : Library_destroy(i)

\* ------------------------------------------- class Library, with threads

\* Thread i operates on Library i alone. refs_ is a std::atomic_int: each load
\* and each ++ or -- of it is one step; is_refer_ belongs to the thread. The
\* SDK and its last error are shared, so the native function inside call() and
\* the GXGetLastError query after it are two steps.

\* open(), or Library(true) when the object does not exist yet:
\* if (is_refer_) return; else if (!refs_) call(GXInitLib).
T_open_begin(i) ==
  /\ pc[i] = "idle"
  /\ pc' = [pc EXCEPT ![i] =
              IF open_steps(is_refer_[i], refs_) # <<>> THEN "open_native"
              ELSE IF is_refer_[i] THEN "idle"
              ELSE "open_set"]
  /\ UNCHANGED <<lastErr, devVars, libVars, bugThrown>>

\* Library(false).
T_construct(i) ==
  /\ pc[i] = "idle"
  /\ ~libAlive[i]
  /\ libAlive' = [libAlive EXCEPT ![i] = TRUE]
  /\ UNCHANGED <<lastErr, devVars, is_refer_, refs_, libOpen, lastLib, thrVars>>

\* The native function of a call(), or one issued directly.
T_native(i, at, fn, next) ==
  /\ pc[i] = at
  /\ \E s \in Statuses : \E clr \in BOOLEAN :
       /\ lastErr' = NativeLastError(lastErr, s, clr)
       /\ libOpen' = NativeLibOpen(libOpen, << [fn |-> fn, s |-> s] >>)
  /\ pc' = [pc EXCEPT ![i] = next]
  /\ UNCHANGED <<devVars, libAlive, is_refer_, refs_, lastLib, bugThrown>>

\* throw_if_last_error() of a call(): a throw ends the operation.
T_query(i, at, next) ==
  /\ pc[i] = at
  /\ \E q \in QueryOutcomes :
       pc' = [pc EXCEPT ![i] = IF call(lastErr, q) # NoException THEN "idle" ELSE next]
  /\ UNCHANGED <<lastErr, devVars, libVars, bugThrown>>

\* is_refer_ = true.
T_open_set(i) ==
  /\ pc[i] = "open_set"
  /\ is_refer_' = [is_refer_ EXCEPT ![i] = refer_after_open(is_refer_[i], FALSE)]
  /\ pc' = [pc EXCEPT ![i] = "open_inc"]
  /\ UNCHANGED <<lastErr, devVars, libAlive, refs_, libOpen, lastLib, bugThrown>>

\* refs_++.
T_open_inc(i) ==
  /\ pc[i] = "open_inc"
  /\ refs_' = refs_after_open(FALSE, refs_, FALSE)
  /\ pc' = [pc EXCEPT ![i] = "open_check"]
  /\ UNCHANGED <<lastErr, devVars, libAlive, is_refer_, libOpen, lastLib, bugThrown>>

\* if (!is_invariant_ok()) throw std::logic_error{"bug"}; a constructor that
\* returns leaves an object.
T_check(i, at) ==
  /\ pc[i] = at
  /\ bugThrown' = (bugThrown \/ ~is_invariant_ok(is_refer_[i], refs_))
  /\ libAlive' = [libAlive EXCEPT ![i] = libAlive[i] \/ is_invariant_ok(is_refer_[i], refs_)]
  /\ pc' = [pc EXCEPT ![i] = "idle"]
  /\ UNCHANGED <<lastErr, devVars, is_refer_, refs_, libOpen, lastLib>>

\* close(): if (!is_refer_) return; else if (refs_ == 1) call(GXCloseLib).
T_close_begin(i) ==
  /\ pc[i] = "idle"
  /\ libAlive[i]
  /\ pc' = [pc EXCEPT ![i] =
              IF lib_close_steps(is_refer_[i], refs_) # <<>> THEN "close_native"
              ELSE IF ~is_refer_[i] THEN "idle"
              ELSE "close_set"]
  /\ UNCHANGED <<lastErr, devVars, libVars, bugThrown>>

\* is_refer_ = false.
T_close_set(i) ==
  /\ pc[i] = "close_set"
  /\ is_refer_' = [is_refer_ EXCEPT ![i] = refer_after_close(is_refer_[i], FALSE)]
  /\ pc' = [pc EXCEPT ![i] = "close_dec"]
  /\ UNCHANGED <<lastErr, devVars, libAlive, refs_, libOpen, lastLib, bugThrown>>

\* refs_--.
T_close_dec(i) ==
  /\ pc[i] = "close_dec"
  /\ refs_' = refs_after_close(TRUE, refs_, FALSE)
  /\ pc' = [pc EXCEPT ![i] = "close_check"]
  /\ UNCHANGED <<lastErr, devVars, libAlive, is_refer_, libOpen, lastLib, bugThrown>>

\* ~Library(): if (!is_refer_) return; else if (refs_ == 1) GXCloseLib().
T_destroy_begin(i) ==
  /\ pc[i] = "idle"
  /\ libAlive[i]
  /\ pc' = [pc EXCEPT ![i] =
              IF destroy_steps(is_refer_[i], refs_) # <<>> THEN "destroy_native"
              ELSE "destroy_dec"]
  /\ UNCHANGED <<lastErr, devVars, libVars, bugThrown>>

\* refs_-- (when the instance refers), and the object is gone.
T_destroy_dec(i) ==
  /\ pc[i] = "destroy_dec"
  /\ refs_' = refs_after_destroy(is_refer_[i], refs_)
  /\ is_refer_' = [is_refer_ EXCEPT ![i] = FALSE]
  /\ libAlive' = [libAlive EXCEPT ![i] = FALSE]
  /\ pc' = [pc EXCEPT ![i] = "idle"]
  /\ UNCHANGED <<lastErr, devVars, libOpen, lastLib, bugThrown>>

ThreadNext ==
  \/ \E i \in Lib : T_construct(i)
  \/ \E i \in Lib : T_open_begin(i)
  \/ \E i \in Lib : T_native(i, "open_native", "GXInitLib", "open_query")
  \/ \E i \in Lib : T_query(i, "open_query", "open_set")
  \/ \E i \in Lib : T_open_set(i)
  \/ \E i \in Lib : T_open_inc(i)
  \/ \E i \in Lib : T_check(i, "open_check")
  \/ \E i \in Lib : T_close_begin(i)
  \/ \E i \in Lib : T_native(i, "close_native", "GXCloseLib", "close_query")
  \/ \E i \in Lib : T_query(i, "close_query", "close_set")
  \/ \E i \in Lib : T_close_set(i)
  \/ \E i \in Lib : T_close_dec(i)
  \/ \E i \in Lib : T_check(i, "close_check")
  \/ \E i \in Lib : T_destroy_begin(i)
  \/ \E i \in Lib : T_native(i, "destroy_native", "GXCloseLib", "destroy_dec")
  \/ \E i \in Lib : T_destroy_dec(i)

\* --------------------------------------------------------- specifications

\* The Device objects of a single-threaded program: construction, moves,
\* release, close, reset and destruction.
DevSpec == Init /\ [][DevNext]_vars

\* The same, with the operations that pass through to the SDK.
CallSpec == Init /\ [][CallNext]_vars

\* The move operations of Device.
MoveSpec == Init /\ [][MoveNext]_vars

\* The Device of the older header, moved and destroyed.
OldSpec == Init /\ [][OldNext]_vars

\* The operations of a Device that reach the SDK.
PassSpec == Init /\ [][PassNext]_vars

\* close_nothrow() over every combination of statuses of its native calls.
StatusSpec == Init /\ [][StatusNext]_vars

\* The Library objects of a single-threaded program.
LibSpec == Init /\ [][LibNext]_vars

\* The Library objects of a program whose threads each own one instance.
ThreadSpec == Init /\ [][ThreadNext]_vars

\* ------------------------------------------------------------------ claims

\* The names of the native functions of a sequence of calls, in order.
CallFns(calls) == [k \in 1 .. Len(calls) |-> calls[k].fn]

\* Every call of the sequence was given handle h.
AllOn(calls, h) == \A k \in 1 .. Len(calls) : calls[k].h = h

\* A native function issued through call() failed.
ViaFailed(calls) ==
  \E k \in 1 .. Len(calls) : calls[k].via /\ calls[k].s # GX_STATUS_SUCCESS

\* Function fn is among the calls.
Issued(calls, fn) == \E k \in 1 .. Len(calls) : calls[k].fn = fn

CloseSequence == << "GXStreamOff", "GXUnregisterCaptureCallback", "GXCloseDevice" >>

\* C1: a Device operation throws an Exception exactly when a native function it
\* invoked through call() returned a status other than GX_STATUS_SUCCESS; a
\* failed native call whose status was ignored never makes it throw.
C1_ThrowsExactlyOnFailure == last.threw <=> ViaFailed(last.calls)

\* C1, the case that breaks it: set_capture_callback() whose unchecked
\* GXUnregisterCaptureCallback failed and whose GXRegisterCaptureCallback
\* succeeded throws the SDK's last error.
C1_IgnoredFailureThrows ==
  /\ last.op = "set_capture_callback"
  /\ Len(last.calls) = 2
  /\ last.calls[1].s # GX_STATUS_SUCCESS
  /\ last.calls[2].s = GX_STATUS_SUCCESS
  /\ last.exc.what = "last error"

\* C2: at most one live Device holds a given handle, GXCloseDevice is never
\* issued on a handle on which an earlier GXCloseDevice succeeded, and a handle
\* given out by release() is never closed by the wrapper.
C2_OneOwnerNoDoubleClose ==
  /\ \A d1, d2 \in Dev :
       (d1 # d2 /\ devLive[d1] /\ devLive[d2] /\ handle_[d1] # NoHandle)
         => handle_[d1] # handle_[d2]
  /\ ~dblClose
  /\ ~relClosed

\* C2, the case that breaks it: close() threw although its GXCloseDevice had
\* succeeded, so the Device still holds the closed handle.
C2_ClosedHandleKept ==
  /\ last.op = "close"
  /\ last.threw
  /\ Len(last.calls) = 3
  /\ last.calls[3].s = GX_STATUS_SUCCESS
  /\ handle_[last.obj] = last.pre
  /\ last.pre \in closedOK

\* C3: destroying a Device that holds a handle issues GXStreamOff, then
\* GXUnregisterCaptureCallback, then GXCloseDevice on that handle, each once,
\* and never throws; destroying a Device that holds no handle issues no
\* native call.
C3_DestructorCloses ==
  last.op = "~Device" =>
    /\ ~last.threw
    /\ ~devLive[last.obj]
    /\ IF last.pre # NoHandle
       THEN CallFns(last.calls) = CloseSequence /\ AllOn(last.calls, last.pre)
       ELSE last.calls = <<>>

C3_Witness ==
  /\ last.op = "~Device"
  /\ last.pre # NoHandle
  /\ Len(last.calls) = 3
  /\ last.calls[1].s # GX_STATUS_SUCCESS

\* C4: open() on an instance that does not refer calls GXInitLib if and only if
\* the counter was 0 before the call, and on normal return the counter is one
\* greater than before and the instance refers.
C4_OpenCounts ==
  (lastLib.op \in {"open", "Library(true)"} /\ ~lastLib.refer) =>
    /\ Issued(lastLib.calls, "GXInitLib") <=> lastLib.refs = 0
    /\ Len(lastLib.calls) <= 1
    /\ (~lastLib.threw /\ ~lastLib.bug) =>
         (refs_ = lastLib.refs + 1 /\ is_refer_[lastLib.obj] /\ libAlive[lastLib.obj])

C4_Witness ==
  /\ lastLib.op = "open"
  /\ ~lastLib.refer
  /\ lastLib.refs = 1
  /\ ~lastLib.threw
  /\ refs_ = 2

\* C5: close() on an instance that refers calls GXCloseLib if and only if the
\* counter was 1 before the call, and on normal return the counter is one less
\* than before and the instance does not refer.
C5_CloseCounts ==
  (lastLib.op = "close" /\ lastLib.refer) =>
    /\ Issued(lastLib.calls, "GXCloseLib") <=> lastLib.refs = 1
    /\ Len(lastLib.calls) <= 1
    /\ (~lastLib.threw /\ ~lastLib.bug) =>
         (refs_ = lastLib.refs - 1 /\ ~is_refer_[lastLib.obj])

C5_Witness ==
  /\ lastLib.op = "close"
  /\ lastLib.refer
  /\ lastLib.refs = 1
  /\ ~lastLib.threw
  /\ refs_ = 0

\* C6: open() on an instance that refers, and close() on one that does not,
\* issue no native call, do not throw, and leave the counter and is_refer()
\* as they were.
C6_Idempotent ==
  ((lastLib.op = "open" /\ lastLib.refer) \/ (lastLib.op = "close" /\ ~lastLib.refer)) =>
    /\ lastLib.calls = <<>>
    /\ ~lastLib.threw
    /\ ~lastLib.bug
    /\ refs_ = lastLib.refs
    /\ is_refer_[lastLib.obj] = lastLib.refer

C6_Witness ==
  /\ lastLib.op = "open"
  /\ lastLib.refer
  /\ refs_ = 1
  /\ is_refer_[lastLib.obj]

\* C7: on any live instance is_open() is true exactly when the native library
\* is open.
C7_IsOpenIffNativeOpen ==
  (\E i \in Lib : libAlive[i]) => (is_open <=> libOpen)

\* C7, the case that breaks it: the destructor of the last referring instance
\* drops the status of a failed GXCloseLib and still decrements the counter.
C7_DestructorDropsFailure ==
  /\ lastLib.op = "~Library"
  /\ Len(lastLib.calls) = 1
  /\ lastLib.calls[1].s # GX_STATUS_SUCCESS
  /\ \E i \in Lib : libAlive[i]
  /\ libOpen
  /\ ~is_open

\* C8: destroying an instance that refers decrements the counter by one and
\* issues GXCloseLib if and only if the counter was 1; destroying one that does
\* not refer issues no native call and leaves the counter; the destructor
\* never throws.
C8_DestructorCounts ==
  lastLib.op = "~Library" =>
    /\ ~lastLib.threw
    /\ ~libAlive[lastLib.obj]
    /\ IF lastLib.refer
       THEN /\ refs_ = lastLib.refs - 1
            /\ Issued(lastLib.calls, "GXCloseLib") <=> lastLib.refs = 1
            /\ Len(lastLib.calls) <= 1
       ELSE lastLib.calls = <<>> /\ refs_ = lastLib.refs

C8_Witness ==
  /\ lastLib.op = "~Library"
  /\ lastLib.refer
  /\ lastLib.refs = 1
  /\ Len(lastLib.calls) = 1
  /\ lastLib.calls[1].s # GX_STATUS_SUCCESS
  /\ refs_ = 0

\* C9: the invariant checked at the end of open() and close() (is_refer_
\* implies refs_ != 0) holds there under every interleaving of threads that
\* each operate on their own instance, so std::logic_error{"bug"} is never
\* thrown.
C9_NoLogicError ==
  /\ ~bugThrown
  /\ \A i \in Lib :
       pc[i] \in {"open_check", "close_check"} => is_invariant_ok(is_refer_[i], refs_)

C9_Witness ==
  \E i, j \in Lib :
    /\ i # j
    /\ pc[i] = "open_check"
    /\ pc[j] = "close_check"
    /\ refs_ = 1

\* C10: whenever close() returns normally it has issued GXStreamOff,
\* GXUnregisterCaptureCallback and GXCloseDevice on the held handle, once each
\* in that order, the Device holds no handle afterwards, and so its destructor
\* issues no native call.
C10_CloseReturnsClosed ==
  (last.op = "close" /\ ~last.threw) =>
    /\ CallFns(last.calls) = CloseSequence
    /\ AllOn(last.calls, last.pre)
    /\ handle_[last.obj] = NoHandle
    /\ close_nothrow_steps(handle_[last.obj]) = <<>>

C10_Witness ==
  /\ last.op = "close"
  /\ ~last.threw
  /\ last.pre # NoHandle
  /\ last.pre \in closedOK

\* C11: close_nothrow() returns true if and only if the Device held no handle
\* or GXStreamOff, GXUnregisterCaptureCallback and GXCloseDevice all returned
\* GX_STATUS_SUCCESS; whatever statuses the three return, the accumulated
\* bitwise OR yields false when at least one of them failed. It never throws.
C11_TrueIffAllSucceeded ==
  last.op = "close_nothrow" =>
    /\ ~last.threw
    /\ last.ret <=>
         (last.pre = NoHandle
            \/ (Len(last.calls) = 3
                  /\ \A k \in 1 .. 3 : last.calls[k].s = GX_STATUS_SUCCESS))

C11_Witness ==
  /\ last.op = "close_nothrow"
  /\ last.pre # NoHandle
  /\ last.calls[1].s = 1
  /\ last.calls[2].s = 0 - 2
  /\ last.calls[3].s = GX_STATUS_SUCCESS
  /\ ~last.ret

\* C12: every public operation of Device is a one-to-one pass-through: each
\* invocation issues exactly one native SDK call (the GXGetLastError query not
\* counted), close(), reset(), set_gain(), gain(), set_balance_ratio(),
\* set_capture_callback() and capture() included.
C12_OneNativeCall ==
  last.op \in FeatureOps \cup {"close", "reset"} => Len(last.calls) = 1

\* The native functions the body of an operation names, in order.
NativeSequence(o) ==
  CASE o.op = "close" -> CloseSequence
    [] o.op = "reset" -> << "GXSendCommand", "GXCloseDevice" >>
    [] o.op \in {"close_nothrow", "~Device"} ->
         IF o.pre # NoHandle THEN CloseSequence ELSE <<>>
    [] o.op = "operator=" ->
         IF o.obj # o.arg /\ o.pre # NoHandle THEN CloseSequence ELSE <<>>
    [] o.op = "Device(index)" -> << "GXOpenDeviceByIndex" >>
    [] o.op = "register_capture_callback" -> << "GXRegisterCaptureCallback" >>
    [] o.op = "set_capture_callback" ->
         << "GXUnregisterCaptureCallback", "GXRegisterCaptureCallback" >>
    [] o.op \in {"set_gain", "set_balance_ratio"} -> << "GXSetEnum", "GXSetFloat" >>
    [] o.op = "gain" -> << "GXSetEnum", "GXGetFloat" >>
    [] o.op = "capture" -> << "GXGetInt", "GXGetImage" >>
    [] OTHER -> <<>>

\* C12, amended: every operation issues the native functions its body names,
\* in order and on the handle it held, up to the first call() that throws: all
\* of them when it returns normally, at least the first when it throws. Only
\* an operation whose body names one function is a one-to-one pass-through;
\* close() names three, reset(), set_gain(), gain(), set_balance_ratio(),
\* set_capture_callback() and capture() two each.
C12_FixedCallSequence ==
  LET seq == NativeSequence(last)
      n == Len(last.calls)
  IN /\ n <= Len(seq)
     /\ CallFns(last.calls) = SubSeq(seq, 1, n)
     /\ AllOn(last.calls, last.pre)
     /\ ~last.threw => n = Len(seq)
     /\ last.threw => n >= 1 /\ last.calls[n].via

C12_Witness ==
  /\ last.op = "set_gain"
  /\ ~last.threw
  /\ CallFns(last.calls) = << "GXSetEnum", "GXSetFloat" >>
  /\ last.pre # NoHandle

\* A native step of the calls returned a status other than GX_STATUS_SUCCESS.
AnyFailed(calls) == \E k \in 1 .. Len(calls) : calls[k].s # GX_STATUS_SUCCESS

\* C13: if one of the native steps of close() (GXStreamOff,
\* GXUnregisterCaptureCallback, GXCloseDevice) fails, close() throws an
\* Exception, the failing step is the last one that call issued, and the
\* Device still holds the handle it held, so that close_nothrow() or the
\* destructor would issue the close sequence on that handle again.
C13_FailedCloseKeepsHandle ==
  (last.op = "close" /\ AnyFailed(last.calls)) =>
    /\ last.threw
    /\ last.calls[Len(last.calls)].s # GX_STATUS_SUCCESS
    /\ \A k \in 1 .. Len(last.calls) - 1 : last.calls[k].s = GX_STATUS_SUCCESS
    /\ CallFns(last.calls) = SubSeq(CloseSequence, 1, Len(last.calls))
    /\ devLive[last.obj]
    /\ handle_[last.obj] = last.pre
    /\ last.pre # NoHandle =>
         /\ CallFns(close_nothrow_steps(handle_[last.obj])) = CloseSequence
         /\ AllOn(close_nothrow_steps(handle_[last.obj]), last.pre)

C13_Witness ==
  /\ last.op = "close"
  /\ last.pre # NoHandle
  /\ Len(last.calls) = 2
  /\ last.calls[2].s # GX_STATUS_SUCCESS
  /\ last.threw
  /\ handle_[last.obj] = last.pre

\* C14: a move assignment a = std::move(b) with a and b distinct leaves a with
\* the handle b held and b with none, and issues GXStreamOff,
\* GXUnregisterCaptureCallback and GXCloseDevice on the handle a held, once
\* each, before it returns (nothing when a held none); a self move assignment
\* issues no native call and leaves the handle; a move construction issues no
\* native call and takes the handle over.
C14_MoveAssignClosesOld ==
  /\ last.op = "operator=" =>
       /\ ~last.threw
       /\ IF last.obj # last.arg
          THEN /\ handle_[last.obj] = last.argPre
               /\ handle_[last.arg] = NoHandle
               /\ IF last.pre # NoHandle
                  THEN CallFns(last.calls) = CloseSequence /\ AllOn(last.calls, last.pre)
                  ELSE last.calls = <<>>
          ELSE /\ last.calls = <<>>
               /\ handle_[last.obj] = last.pre
  /\ last.op = "Device(Device&&)" =>
       /\ last.calls = <<>>
       /\ ~last.threw
       /\ handle_[last.obj] = last.argPre
       /\ handle_[last.arg] = NoHandle

C14_Witness ==
  /\ last.op = "operator="
  /\ last.obj # last.arg
  /\ last.pre # NoHandle
  /\ last.argPre # NoHandle
  /\ last.pre # last.argPre
  /\ handle_[last.obj] = last.argPre
  /\ Len(last.calls) = 3

\* C15: if GXInitLib fails inside open(), open() throws, is_refer() stays false
\* and the counter stays as it was (0, so that a later open() issues GXInitLib
\* again); if GXCloseLib fails inside close(), close() throws, is_refer()
\* stays true and the counter stays 1.
C15_LibraryUnchangedOnError ==
  /\ (lastLib.op \in {"open", "Library(true)"} /\ AnyFailed(lastLib.calls)) =>
       /\ lastLib.threw
       /\ ~lastLib.refer
       /\ ~is_refer_[lastLib.obj]
       /\ refs_ = lastLib.refs
       /\ CallFns(open_steps(is_refer_[lastLib.obj], refs_)) = << "GXInitLib" >>
  /\ (lastLib.op = "close" /\ AnyFailed(lastLib.calls)) =>
       /\ lastLib.threw
       /\ is_refer_[lastLib.obj]
       /\ refs_ = lastLib.refs
       /\ refs_ = 1

C15_Witness ==
  /\ lastLib.op = "close"
  /\ Len(lastLib.calls) = 1
  /\ lastLib.calls[1].s # GX_STATUS_SUCCESS
  /\ lastLib.threw
  /\ is_refer_[lastLib.obj]
  /\ refs_ = 1

\* C16: in the older header, move-constructing or move-assigning a Device
\* leaves the source without the handle, so that no two live Devices hold the
\* same handle, GXCloseDevice is never issued on a handle on which an earlier
\* GXCloseDevice succeeded, and a handle that was move-assigned over has had
\* GXCloseDevice issued on it or is still held.
C16_MovedHandleClosedOnce ==
  /\ (last.op \in {"Device(Device&&)", "operator="} /\ last.obj # last.arg) =>
       handle_[last.arg] = NoHandle
  /\ \A d1, d2 \in Dev :
       (d1 # d2 /\ devLive[d1] /\ devLive[d2] /\ handle_[d1] # NoHandle)
         => handle_[d1] # handle_[d2]
  /\ ~dblClose
  /\ (last.op = "operator=" /\ last.obj # last.arg /\ last.pre # NoHandle) =>
       \/ last.pre \in CloseIssued(last.calls) \cup closedOK
       \/ \E d \in Dev : devLive[d] /\ handle_[d] = last.pre

\* C16, the case that breaks it: the destructor of a Device that was moved
\* from closes a handle that the Device moved to has already closed.
C16_SecondClose ==
  /\ last.op = "~Device"
  /\ last.pre # NoHandle
  /\ last.pre \in closedOK
  /\ Len(last.calls) = 3
  /\ dblClose

\* C16, the other case: a move assignment overwrote the only copy of a handle
\* that was never closed.
C16_Leak ==
  /\ last.op = "operator="
  /\ last.pre # NoHandle
  /\ last.calls = <<>>
  /\ last.pre \notin closedOK
  /\ \A d \in Dev : handle_[d] # last.pre

====
